---- MODULE Spec2Model ----
(***************************************************************************)
(* Customer management module: the Customer table (models.py) and the      *)
(* request handlers over it (views.py).                                    *)
(*                                                                         *)
(* Text is a sequence of character codes, money is a whole number of       *)
(* cents, a timestamp is a tick of the wall clock.  The clock advances by  *)
(* one tick at every row written; between two statements of one request    *)
(* it may stand still or advance.                                          *)
(*                                                                         *)
(* A request is served by a worker process, one step for each statement    *)
(* the handler sends to the database and each reading of the clock, those  *)
(* that save() and create() make for updated_at and created_at before      *)
(* they send their UPDATE or INSERT included; what the handler computes    *)
(* between two statements belongs to the step of the earlier one.  No transaction and no lock spans two statements, so the   *)
(* steps of other workers' requests and the sales module's own writes      *)
(* come in between.                                                        *)
(*                                                                         *)
(* A behaviour writes at most MaxWrites rows.  A request that writes is    *)
(* taken while the rows written and the requests being served together     *)
(* are fewer than that; a request that only reads is also taken whenever   *)
(* no other request is being served.                                       *)
(*                                                                         *)
(* Spec      every handler, requests served one after another by a single  *)
(*           worker, from the empty table                                  *)
(* SpecStats update-stats and the detail page of single customers, over    *)
(*           every small sales dataset, sales being recorded meanwhile     *)
(* SpecList  the list page, the listing and the export over tables of a    *)
(*           few and of about ListLimit customers                          *)
(* SpecConc  the handlers that write, the list page and the export served  *)
(*           by several workers at once                                    *)
(***************************************************************************)
EXTENDS Integers, Sequences, FiniteSets, TLC

VARIABLES
    store,           \* the Customer table: id -> row
    nextId,          \* the table's auto-increment counter
    clock,           \* timezone.now()
    writes,          \* rows written so far
    ticks,           \* ticks that passed without a row being written
    sales,           \* the sales module: installed or not, and its Sale table
    req,             \* the request answered by the last step, if any
    resp,            \* the response returned for it
    worker           \* worker process -> the request it is serving

vars == <<store, nextId, clock, writes, ticks, sales, req, resp, worker>>

----------------------------------------------------------------------------
(* Bounds of the exploration *)

\* rows written (inserted or saved) in one behaviour
MaxWrites == 2
\* sale records in the Sale table of SpecStats
MaxSales == 2
\* worker processes of SpecConc
MaxWorkers == 2
\* ticks of SpecConc that pass without a row being written
MaxTicks == 1

----------------------------------------------------------------------------
(* Text *)

\* the characters str.strip() removes, those with str.isspace(): TAB..CR,
\* FS..US, SPACE, U+0085, U+00A0, U+1680, U+2000..U+200A, U+2028, U+2029,
\* U+202F, U+205F, U+3000
IsSpace(c) ==
    \/ c \in 9..13
    \/ c \in 28..32
    \/ c \in {133, 160, 5760}
    \/ c \in 8192..8202
    \/ c \in {8232, 8233, 8239, 8287, 12288}

RECURSIVE LStrip(_)
LStrip(s) == IF s # <<>> /\ IsSpace(Head(s)) THEN LStrip(Tail(s)) ELSE s

RECURSIVE RStrip(_)
RStrip(s) ==
    IF s # <<>> /\ IsSpace(s[Len(s)]) THEN RStrip(SubSeq(s, 1, Len(s) - 1)) ELSE s

\* str.strip()
strip_nothing(s) == s
strip(s) == RStrip(LStrip(s))

\* case folding of icontains
Lower(c) == IF c >= 65 /\ c <= 90 THEN c + 32 ELSE c

\* field__icontains=needle
icontains(s, needle) ==
    \E i \in 0..(Len(s) - Len(needle)) :
        \A j \in 1..Len(needle) : Lower(s[i + j]) = Lower(needle[j])

\* byte-wise order of two texts: order_by('name')
RECURSIVE TextLeq(_, _)
TextLeq(a, b) ==
    IF a = <<>> THEN TRUE
    ELSE IF b = <<>> THEN FALSE
    ELSE IF Head(a) # Head(b) THEN Head(a) < Head(b)
    ELSE TextLeq(Tail(a), Tail(b))

\* the literal 'on' a ticked checkbox submits
On == <<111, 110>>

----------------------------------------------------------------------------
(* Requests: a QueryDict maps the submitted keys to their values *)

\* QueryDict.get(key, default)
Get(dict, key, default) == IF key \in DOMAIN dict THEN dict[key] ELSE default

\* a key that is submitted (opt = {value}) or left out (opt = {})
Field(key, opt) == [k \in {x \in {key} : opt # {}} |-> CHOOSE v \in opt : TRUE]

Opt(S) == {{}} \cup {{v} : v \in S}

\* a space and a no-break space, " a ", "a a"
NameInputs == Opt({<<32, 160>>, <<32, 97, 32>>, <<97, 32, 97>>})
SearchInputs == Opt({<<32>>, <<66>>})                        \* " " and "B"
StatusInputs == Opt({"active", "inactive", "all", "archived"})
ExtraInputs == Opt({<<98, 32>>})                  \* "b "
ActiveInputs == Opt({On})

\* the body of a create or edit POST; the optional fields are submitted
\* together, all with the same value
PostData(name, extra, active) ==
    Field("name", name) @@ Field("email", extra) @@ Field("phone", extra)
        @@ Field("address", extra) @@ Field("tax_id", extra)
        @@ Field("notes", extra) @@ Field("is_active", active)

----------------------------------------------------------------------------
(* models.py: the Customer row *)

Null == 0    \* last_purchase_at IS NULL

\* Customer(name=..., ...) with the fields' defaults
Customer(name, email, phone, address, tax_id, notes) ==
    [name |-> name, email |-> email, phone |-> phone, address |-> address,
     tax_id |-> tax_id, total_spent |-> 0, visit_count |-> 0, notes |-> notes,
     is_active |-> TRUE, created_at |-> Null, updated_at |-> Null,
     last_purchase_at |-> Null]

\* created_at, auto_now_add: the first save of an instance reads
\* timezone.now() into it, in the worker, before the INSERT is sent
auto_now_add(row, now) == [row EXCEPT !.created_at = now]

\* updated_at, auto_now: every save reads timezone.now() into it, in the
\* worker, before the INSERT or UPDATE is sent
auto_now(row, now) == [row EXCEPT !.updated_at = now]

\* the INSERT of Customer.objects.create(...)
Insert(st, id, row) == (id :> row) @@ st

\* the UPDATE of instance.save(): every column of the instance
Save(st, id, row) == [st EXCEPT ![id] = row]

\* get_object_or_404(Customer, id=customer_id) raises Http404
Exists(id) == id \in DOMAIN store

\* the largest member of a non-empty set of numbers
Max(S) == CHOOSE m \in S : \A x \in S : x <= m
Min(a, b) == IF a <= b THEN a ELSE b

\* every sequence that lists each member of S once
RECURSIVE Perms(_)
Perms(S) ==
    IF S = {} THEN {<<>>}
    ELSE UNION {{<<m>> \o t : t \in Perms(S \ {m})} : m \in S}

\* the sequences ORDER BY may return: each member of S once, in ascending
\* order of key, rows of equal key in any order
RECURSIVE Ascending(_, _)
Ascending(key, S) ==
    IF S = {} THEN {<<>>}
    ELSE LET half == Cardinality(S) \div 2
             p == CHOOSE i \in S :
                      /\ Cardinality({j \in S : key[j] < key[i]}) <= half
                      /\ Cardinality({j \in S : key[j] > key[i]}) <= half
         IN {a \o b \o c : a \in Ascending(key, {j \in S : key[j] < key[p]}),
                            b \in Perms({j \in S : key[j] = key[p]}),
                            c \in Ascending(key, {j \in S : key[j] > key[p]})}

----------------------------------------------------------------------------
(* The sales collaborator: sales.models.Sale, when that module is installed *)

STATUS_COMPLETED == "completed"

Sale(id, customer_name, status, total, created_at) ==
    [id |-> id, customer_name |-> customer_name, status |-> status,
     total |-> total, created_at |-> created_at]

\* what "from sales.models import Sale" finds when a request runs
NotInstalled == [installed |-> FALSE, rows |-> {}]
Installed(rows) == [installed |-> TRUE, rows |-> rows]

\* Sale.objects.filter(customer_name=self.name, status=Sale.STATUS_COMPLETED)
MatchingAnyStatus(customer, rows) == {s \in rows : s.customer_name = customer.name}
Matching(customer, rows) ==
    {s \in rows : s.customer_name = customer.name /\ s.status = STATUS_COMPLETED}

\* aggregate(total=Sum('total'))['total'] of a non-empty queryset
RECURSIVE SumTotal(_)
SumTotal(S) ==
    IF S = {} THEN 0
    ELSE LET s == CHOOSE x \in S : TRUE IN s.total + SumTotal(S \ {s})

\* order_by('-created_at') over the sales S
RecentFirst(S) ==
    LET byId == [i \in {s.id : s \in S} |-> CHOOSE s \in S : s.id = i]
    IN {[k \in 1..Len(t) |-> byId[t[k]]] :
            t \in Ascending([i \in DOMAIN byId |-> 0 - byId[i].created_at], DOMAIN byId)}

----------------------------------------------------------------------------
(* models.py: Customer.update_stats, get_recent_purchases, average_purchase *)

\* self.save() runs inside the try, after the import has succeeded
SavesAlways(env) == TRUE
Saves(env) == env.installed

\* the instance after "self.visit_count = sales.count()", a COUNT over rows
Counted(customer, rows) ==
    [customer EXCEPT !.visit_count = Cardinality(Matching(customer, rows))]

\* the instance after "self.total_spent = sales.aggregate(total=Sum('total'))
\* ['total'] or Decimal('0.00')", a SUM over rows
Summed(customer, rows) ==
    LET matching == Matching(customer, rows)
    IN [customer EXCEPT
           !.total_spent = IF matching = {} THEN 0 ELSE SumTotal(matching)]

\* the instance after "last_sale = sales.order_by('-created_at').first()" and
\* "if last_sale: self.last_purchase_at = last_sale.created_at"
Dated(customer, rows) ==
    LET matching == Matching(customer, rows)
    IN [customer EXCEPT
           !.last_purchase_at =
               IF matching # {} THEN Max({s.created_at : s \in matching}) ELSE @]

\* get_recent_purchases(limit): the sequences it may return
get_recent_purchases(customer, env, limit) ==
    IF env.installed
    THEN {SubSeq(t, 1, Min(Len(t), limit)) : t \in RecentFirst(Matching(customer, env.rows))}
    ELSE {<<>>}

\* Decimal / int: the exact quotient as whole cents and a remainder, or the
\* exception decimal raises for a zero divisor
Divide(a, b) ==
    IF b = 0 THEN [raised |-> TRUE, cents |-> 0, rest |-> 0, per |-> 1]
    ELSE [raised |-> FALSE, cents |-> a \div b, rest |-> a % b, per |-> b]

\* Decimal('0.00')
ZeroDecimal == [raised |-> FALSE, cents |-> 0, rest |-> 0, per |-> 1]

average_purchase_unguarded(customer) ==
    Divide(customer.total_spent, customer.visit_count)
average_purchase(customer) ==
    IF customer.visit_count > 0
    THEN Divide(customer.total_spent, customer.visit_count)
    ELSE ZeroDecimal

----------------------------------------------------------------------------
(* Responses *)

JsonResponse(body) == [status |-> 200, kind |-> "json", body |-> body]
Render(template, context) ==
    [status |-> 200, kind |-> "html", template |-> template, context |-> context]
\* an Http404 that reaches Django's handler
NotFound == [status |-> 404, kind |-> "html"]
Http404Message == "No Customer matches the given query."
NameRequired == "El nombre es obligatorio"

\* request.headers.get('HX-Request') selects the partial template
Template(hx, partial, page) == IF hx THEN partial ELSE page

\* "if not name": the validation of create and edit
NameNeverMissing(name) == FALSE
NameMissing(name) == name = <<>>

----------------------------------------------------------------------------
(* Worker processes *)

\* no request was answered by the step
NoRequest == [handler |-> "none"]
NoResponse == [status |-> 0, kind |-> "none"]

\* a worker that serves no request
Idle == [phase |-> "idle"]

\* n worker processes, none of them serving a request
Workers(n) == [w \in 1..n |-> Idle]

\* worker w has run a statement of its request and holds the request and the
\* handler's local variables in record; the step answers nothing
Hold(w, record) ==
    /\ worker' = [worker EXCEPT ![w] = record]
    /\ req' = NoRequest
    /\ resp' = NoResponse

\* the request worker w is serving, with the handler's local variables
Served(w) == [k \in DOMAIN worker[w] \ {"phase"} |-> worker[w][k]]

\* worker w returns the response and is free for the next request
Answer(w, request, response) ==
    /\ req' = request
    /\ resp' = response
    /\ worker' = [worker EXCEPT ![w] = Idle]

\* save() reads timezone.now() for updated_at of the instance worker w holds
PreSave(w, from, to) ==
    /\ worker[w].phase = from
    /\ Hold(w, [worker[w] EXCEPT !.phase = to, !.customer = auto_now(@, clock)])

\* the UPDATE of the save() of the instance worker w holds
Commit(w, customer) ==
    /\ writes < MaxWrites
    /\ store' = Save(store, worker[w].customer_id, customer)
    /\ clock' = clock + 1
    /\ writes' = writes + 1

\* the requests being served
InFlight == {w \in DOMAIN worker : worker[w] # Idle}

\* a request that writes a row is taken while the rows written and the
\* requests being served are fewer than MaxWrites
WriterAdmitted == writes + Cardinality(InFlight) < MaxWrites

\* a request that only reads is also taken when no request is being served
ReaderAdmitted == WriterAdmitted \/ InFlight = {}

\* the identifiers requests are made for: every stored one and the next unused one
IdInputs == DOMAIN store \cup {nextId}

----------------------------------------------------------------------------
(* views.py: customer_list *)

\* Customer.objects.filter(is_active=True).count()
customer_list(w, hx) ==
    /\ worker[w] = Idle
    /\ ReaderAdmitted
    /\ Hold(w, [handler |-> "list", method |-> "GET", hx |-> hx,
                phase |-> "list_counted",
                total_customers |->
                    Cardinality({i \in DOMAIN store : store[i].is_active})])
    /\ UNCHANGED <<store, nextId, clock, writes, ticks, sales>>

\* Customer.objects.filter(is_active=False).count() and the page
customer_list_render(w) ==
    /\ worker[w].phase = "list_counted"
    /\ Answer(w, Served(w),
              Render(Template(worker[w].hx, "customer/partials/list_content.html",
                              "customer/pages/list.html"),
                     [total_customers |-> worker[w].total_customers,
                      inactive_customers |->
                          Cardinality({i \in DOMAIN store : ~store[i].is_active})]))
    /\ UNCHANGED <<store, nextId, clock, writes, ticks, sales>>

List == \E w \in DOMAIN worker, hx \in BOOLEAN : customer_list(w, hx)
ListRender == \E w \in DOMAIN worker : customer_list_render(w)

----------------------------------------------------------------------------
(* views.py: customer_list_ajax *)

ListLimit == 100

\* strftime('%Y-%m-%d'): the day a tick falls on, two ticks to the day
Day(t) == t \div 2

\* order_by('-created_at') over the customers S
OldestFirst(st, S) == Ascending([i \in S |-> st[i].created_at], S)
NewestFirst(st, S) == Ascending([i \in S |-> 0 - st[i].created_at], S)

\* the customers the status filter and the search keep
Filtered(st, status_filter, search) ==
    LET byStatus ==
            IF status_filter = "active" THEN {i \in DOMAIN st : st[i].is_active}
            ELSE IF status_filter = "inactive" THEN {i \in DOMAIN st : ~st[i].is_active}
            ELSE DOMAIN st
    IN IF search # <<>>
       THEN {i \in byStatus : \/ icontains(st[i].name, search)
                              \/ icontains(st[i].phone, search)
                              \/ icontains(st[i].email, search)
                              \/ icontains(st[i].tax_id, search)}
       ELSE byStatus

\* one entry of customers_data
CustomerData(st, i) ==
    [id |-> i, name |-> st[i].name, phone |-> st[i].phone, email |-> st[i].email,
     tax_id |-> st[i].tax_id, total_spent |-> st[i].total_spent,
     visit_count |-> st[i].visit_count,
     average_purchase |-> average_purchase(st[i]),
     last_purchase |-> st[i].last_purchase_at,
     is_active |-> st[i].is_active, created_at |-> Day(st[i].created_at)]

\* request.GET.get('status', 'active')
status_filter_default_all(get) == Get(get, "status", "all")
status_filter(get) == Get(get, "status", "active")

\* the filters build one query, evaluated by the slice customers[:100]
customer_list_ajax(w, get) ==
    /\ worker[w] = Idle
    /\ LET search == strip(Get(get, "search", <<>>))
       IN \E customers \in NewestFirst(store, Filtered(store, status_filter(get), search)) :
              Answer(w, [handler |-> "list_ajax", method |-> "GET", GET |-> get],
                     JsonResponse(
                         [success |-> TRUE,
                          customers |-> [k \in 1..Min(Len(customers), ListLimit) |->
                                            CustomerData(store, customers[k])]]))
    /\ UNCHANGED <<store, nextId, clock, writes, ticks, sales>>

ListAjax ==
    \E w \in DOMAIN worker, search \in SearchInputs, status \in StatusInputs :
        customer_list_ajax(w, Field("search", search) @@ Field("status", status))

----------------------------------------------------------------------------
(* views.py: customer_create *)

\* the handler up to the timezone.now() that Customer.objects.create reads
\* for created_at
customer_create(w, method, hx, post) ==
    /\ worker[w] = Idle
    /\ LET request == [handler |-> "create", method |-> method, hx |-> hx,
                       POST |-> post]
           name == strip(Get(post, "name", <<>>))
           email == strip(Get(post, "email", <<>>))
           phone == strip(Get(post, "phone", <<>>))
           address == strip(Get(post, "address", <<>>))
           tax_id == strip(Get(post, "tax_id", <<>>))
           notes == strip(Get(post, "notes", <<>>))
       IN IF method = "POST"
          THEN IF NameMissing(name)
               THEN Answer(w, request,
                           JsonResponse([success |-> FALSE, error |-> NameRequired]))
               ELSE /\ WriterAdmitted
                    /\ Hold(w, request @@
                               [phase |-> "create_created",
                                customer |->
                                    auto_now_add(Customer(name, email, phone,
                                                          address, tax_id, notes),
                                                 clock)])
          ELSE Answer(w, request,
                      Render(Template(hx, "customer/partials/form_content.html",
                                      "customer/pages/form.html"),
                             [page_title |-> "Nuevo Cliente"]))
    /\ UNCHANGED <<store, nextId, clock, writes, ticks, sales>>

\* the timezone.now() that Customer.objects.create reads for updated_at
customer_create_now(w) ==
    /\ PreSave(w, "create_created", "create_stamped")
    /\ UNCHANGED <<store, nextId, clock, writes, ticks, sales>>

\* the INSERT of Customer.objects.create and the response
customer_create_insert(w) ==
    /\ worker[w].phase = "create_stamped"
    /\ writes < MaxWrites
    /\ store' = Insert(store, nextId, worker[w].customer)
    /\ nextId' = nextId + 1
    /\ clock' = clock + 1
    /\ writes' = writes + 1
    /\ Answer(w, Served(w),
              JsonResponse([success |-> TRUE,
                            message |-> "Cliente creado correctamente",
                            customer_id |-> nextId]))
    /\ UNCHANGED <<ticks, sales>>

CreateGet == \E w \in DOMAIN worker, hx \in BOOLEAN : customer_create(w, "GET", hx, <<>>)

CreatePost ==
    \E w \in DOMAIN worker, name \in NameInputs, extra \in ExtraInputs :
        customer_create(w, "POST", FALSE, PostData(name, extra, {}))

CreateNow == \E w \in DOMAIN worker : customer_create_now(w)
CreateInsert == \E w \in DOMAIN worker : customer_create_insert(w)

----------------------------------------------------------------------------
(* views.py: customer_detail *)

RecentLimit == 10

\* get_object_or_404 and get_recent_purchases(limit=10), whose query is sent
\* when the page is rendered
customer_detail(w, hx, customer_id) ==
    /\ worker[w] = Idle
    /\ ReaderAdmitted
    /\ LET request == [handler |-> "detail", method |-> "GET", hx |-> hx,
                       customer_id |-> customer_id]
       IN IF ~Exists(customer_id)
          THEN Answer(w, request, NotFound)
          ELSE IF sales.installed
          THEN Hold(w, request @@ [phase |-> "detail_loaded",
                                   customer |-> store[customer_id]])
          ELSE \E recent \in get_recent_purchases(store[customer_id], sales, RecentLimit) :
                   Answer(w, request @@ [customer |-> store[customer_id]],
                          Render(Template(hx, "customer/partials/detail_content.html",
                                          "customer/pages/detail.html"),
                                 [customer |-> store[customer_id],
                                  recent_purchases |-> recent]))
    /\ UNCHANGED <<store, nextId, clock, writes, ticks, sales>>

\* the page: the query of recent_purchases is sent and the rows are listed
customer_detail_render(w) ==
    /\ worker[w].phase = "detail_loaded"
    /\ \E recent \in get_recent_purchases(worker[w].customer, sales, RecentLimit) :
           Answer(w, Served(w),
                  Render(Template(worker[w].hx, "customer/partials/detail_content.html",
                                  "customer/pages/detail.html"),
                         [customer |-> worker[w].customer,
                          recent_purchases |-> recent]))
    /\ UNCHANGED <<store, nextId, clock, writes, ticks, sales>>

Detail ==
    \E w \in DOMAIN worker, hx \in BOOLEAN, id \in IdInputs : customer_detail(w, hx, id)
DetailRender == \E w \in DOMAIN worker : customer_detail_render(w)

----------------------------------------------------------------------------
(* views.py: customer_edit *)

\* the instance after the assignments of the edit
AssignedSubmittedOnly(customer, post) ==
    [customer EXCEPT
        !.name = strip(Get(post, "name", <<>>)),
        !.email = IF "email" \in DOMAIN post THEN strip(post["email"]) ELSE @,
        !.phone = IF "phone" \in DOMAIN post THEN strip(post["phone"]) ELSE @,
        !.address = IF "address" \in DOMAIN post THEN strip(post["address"]) ELSE @,
        !.tax_id = IF "tax_id" \in DOMAIN post THEN strip(post["tax_id"]) ELSE @,
        !.notes = IF "notes" \in DOMAIN post THEN strip(post["notes"]) ELSE @,
        !.is_active = IF "is_active" \in DOMAIN post THEN post["is_active"] = On ELSE @]
Assigned(customer, post) ==
    [customer EXCEPT
        !.name = strip(Get(post, "name", <<>>)),
        !.email = strip(Get(post, "email", <<>>)),
        !.phone = strip(Get(post, "phone", <<>>)),
        !.address = strip(Get(post, "address", <<>>)),
        !.tax_id = strip(Get(post, "tax_id", <<>>)),
        !.notes = strip(Get(post, "notes", <<>>)),
        !.is_active = ("is_active" \in DOMAIN post /\ post["is_active"] = On)]

\* get_object_or_404, and for a POST the assignments and the validation
customer_edit(w, method, hx, customer_id, post) ==
    /\ worker[w] = Idle
    /\ LET request == [handler |-> "edit", method |-> method, hx |-> hx,
                       customer_id |-> customer_id, POST |-> post]
       IN IF ~Exists(customer_id)
          THEN Answer(w, request, NotFound)
          ELSE IF method = "POST"
          THEN LET customer == Assigned(store[customer_id], post)
               IN IF NameMissing(customer.name)
                  THEN Answer(w, request,
                              JsonResponse([success |-> FALSE, error |-> NameRequired]))
                  ELSE /\ WriterAdmitted
                       /\ Hold(w, request @@ [phase |-> "edit_assigned",
                                              customer |-> customer])
          ELSE Answer(w, request,
                      Render(Template(hx, "customer/partials/form_content.html",
                                      "customer/pages/form.html"),
                             [customer |-> store[customer_id]]))
    /\ UNCHANGED <<store, nextId, clock, writes, ticks, sales>>

\* customer.save() reads timezone.now()
customer_edit_now(w) ==
    /\ PreSave(w, "edit_assigned", "edit_stamped")
    /\ UNCHANGED <<store, nextId, clock, writes, ticks, sales>>

\* the UPDATE of customer.save() and the response; replaced is the row the
\* UPDATE found
customer_edit_save(w) ==
    /\ worker[w].phase = "edit_stamped"
    /\ Commit(w, worker[w].customer)
    /\ Answer(w, Served(w) @@ [replaced |-> store[worker[w].customer_id]],
              JsonResponse([success |-> TRUE,
                            message |-> "Cliente actualizado correctamente"]))
    /\ UNCHANGED <<nextId, ticks, sales>>

EditGet ==
    \E w \in DOMAIN worker, hx \in BOOLEAN, id \in IdInputs :
        customer_edit(w, "GET", hx, id, <<>>)

EditPost ==
    \E w \in DOMAIN worker, id \in IdInputs, name \in NameInputs,
       extra \in ExtraInputs, active \in ActiveInputs :
        customer_edit(w, "POST", FALSE, id, PostData(name, extra, active))

EditNow == \E w \in DOMAIN worker : customer_edit_now(w)
EditSave == \E w \in DOMAIN worker : customer_edit_save(w)

----------------------------------------------------------------------------
(* views.py: customer_delete *)

\* customer.is_active = False; the UPDATE of customer.save()
HardDelete(st, id, customer) == [i \in DOMAIN st \ {id} |-> st[i]]
SoftDelete(st, id, customer) ==
    Save(st, id, [customer EXCEPT !.is_active = FALSE])

\* get_object_or_404; the Http404 is raised inside the try and caught by
\* "except Exception"
customer_delete(w, customer_id) ==
    /\ worker[w] = Idle
    /\ LET request == [handler |-> "delete", method |-> "POST",
                       customer_id |-> customer_id]
       IN IF ~Exists(customer_id)
          THEN Answer(w, request,
                      JsonResponse([success |-> FALSE, error |-> Http404Message]))
          ELSE /\ WriterAdmitted
               /\ Hold(w, request @@ [phase |-> "delete_loaded",
                                      customer |-> store[customer_id]])
    /\ UNCHANGED <<store, nextId, clock, writes, ticks, sales>>

\* customer.save() reads timezone.now()
customer_delete_now(w) ==
    /\ PreSave(w, "delete_loaded", "delete_stamped")
    /\ UNCHANGED <<store, nextId, clock, writes, ticks, sales>>

\* the UPDATE of customer.save() and the response
customer_delete_save(w) ==
    /\ worker[w].phase = "delete_stamped"
    /\ writes < MaxWrites
    /\ store' = SoftDelete(store, worker[w].customer_id, worker[w].customer)
    /\ clock' = clock + 1
    /\ writes' = writes + 1
    /\ Answer(w, Served(w),
              JsonResponse([success |-> TRUE,
                            message |-> "Cliente desactivado correctamente"]))
    /\ UNCHANGED <<nextId, ticks, sales>>

Delete == \E w \in DOMAIN worker, id \in IdInputs : customer_delete(w, id)
DeleteNow == \E w \in DOMAIN worker : customer_delete_now(w)
DeleteSave == \E w \in DOMAIN worker : customer_delete_save(w)

----------------------------------------------------------------------------
(* views.py: customer_update_stats, and the statements of update_stats *)

\* the response of customer_update_stats for the instance
StatsResponse(customer) ==
    JsonResponse([success |-> TRUE,
                  total_spent |-> customer.total_spent,
                  visit_count |-> customer.visit_count,
                  average_purchase |-> average_purchase(customer)])

\* get_object_or_404 and the import of update_stats; the Http404 is raised
\* inside the try and caught by "except Exception", the ImportError is
\* passed over
customer_update_stats(w, customer_id) ==
    /\ worker[w] = Idle
    /\ LET request == [handler |-> "update_stats", method |-> "POST",
                       customer_id |-> customer_id]
       IN IF ~Exists(customer_id)
          THEN Answer(w, request,
                      JsonResponse([success |-> FALSE, error |-> Http404Message]))
          ELSE IF Saves(sales)
          THEN /\ WriterAdmitted
               /\ Hold(w, request @@ [phase |-> "stats_loaded",
                                      customer |-> store[customer_id]])
          ELSE Answer(w, request @@ [customer |-> store[customer_id]],
                      StatsResponse(store[customer_id]))
    /\ UNCHANGED <<store, nextId, clock, writes, ticks, sales>>

\* sales.count()
update_stats_count(w) ==
    /\ worker[w].phase = "stats_loaded"
    /\ Hold(w, [worker[w] EXCEPT !.phase = "stats_counted",
                                 !.customer = Counted(@, sales.rows)])
    /\ UNCHANGED <<store, nextId, clock, writes, ticks, sales>>

\* sales.aggregate(total=Sum('total'))
update_stats_sum(w) ==
    /\ worker[w].phase = "stats_counted"
    /\ Hold(w, [worker[w] EXCEPT !.phase = "stats_summed",
                                 !.customer = Summed(@, sales.rows)])
    /\ UNCHANGED <<store, nextId, clock, writes, ticks, sales>>

\* sales.order_by('-created_at').first()
update_stats_last(w) ==
    /\ worker[w].phase = "stats_summed"
    /\ Hold(w, [worker[w] EXCEPT !.phase = "stats_dated",
                                 !.customer = Dated(@, sales.rows)])
    /\ UNCHANGED <<store, nextId, clock, writes, ticks, sales>>

\* self.save() reads timezone.now()
update_stats_now(w) ==
    /\ PreSave(w, "stats_dated", "stats_stamped")
    /\ UNCHANGED <<store, nextId, clock, writes, ticks, sales>>

\* the UPDATE of self.save() and the response of the handler
update_stats_save(w) ==
    /\ worker[w].phase = "stats_stamped"
    /\ Commit(w, worker[w].customer)
    /\ Answer(w, Served(w), StatsResponse(worker[w].customer))
    /\ UNCHANGED <<nextId, ticks, sales>>

\* the sales module as the requests of Spec and SpecConc find it
saleA1 == Sale(1, <<97>>, STATUS_COMPLETED, 150, 1)
saleA2 == Sale(2, <<97>>, STATUS_COMPLETED, 250, 2)
saleA3 == Sale(3, <<97>>, "pending", 300, 3)
SalesOfA == Installed({saleA1, saleA2, saleA3})
SampleSales == {NotInstalled, SalesOfA}

UpdateStats == \E w \in DOMAIN worker, id \in IdInputs : customer_update_stats(w, id)
UpdateStatsCount == \E w \in DOMAIN worker : update_stats_count(w)
UpdateStatsSum == \E w \in DOMAIN worker : update_stats_sum(w)
UpdateStatsLast == \E w \in DOMAIN worker : update_stats_last(w)
UpdateStatsNow == \E w \in DOMAIN worker : update_stats_now(w)
UpdateStatsSave == \E w \in DOMAIN worker : update_stats_save(w)

----------------------------------------------------------------------------
(* views.py: customers_export *)

CsvHeader ==
    <<"Name", "Email", "Phone", "Tax ID", "Total Spent", "Visit Count", "Created At">>

\* order_by('name') over the customers S: each once, names ascending,
\* customers of one name in any order
RECURSIVE ByName(_, _)
ByName(st, S) ==
    IF S = {} THEN {<<>>}
    ELSE LET half == Cardinality(S) \div 2
             Before(i, j) == ~TextLeq(st[j].name, st[i].name)
             p == CHOOSE i \in S :
                      /\ Cardinality({j \in S : Before(j, i)}) <= half
                      /\ Cardinality({j \in S : Before(i, j)}) <= half
         IN {a \o b \o c : a \in ByName(st, {j \in S : Before(j, p)}),
                            b \in Perms({j \in S : st[j].name = st[p].name}),
                            c \in ByName(st, {j \in S : Before(p, j)})}

\* Customer.objects.filter(is_active=True)
EveryCustomer(st) == DOMAIN st
ActiveCustomers(st) == {i \in DOMAIN st : st[i].is_active}

CsvRow(st, i) ==
    <<st[i].name, st[i].email, st[i].phone, st[i].tax_id, st[i].total_spent,
      st[i].visit_count, Day(st[i].created_at)>>

\* timezone.now() for the name of the file
customers_export(w) ==
    /\ worker[w] = Idle
    /\ ReaderAdmitted
    /\ Hold(w, [handler |-> "export", method |-> "GET", phase |-> "export_named",
                filename |-> Day(clock)])
    /\ UNCHANGED <<store, nextId, clock, writes, ticks, sales>>

\* the header, and the rows of the one query of the loop
customers_export_rows(w) ==
    /\ worker[w].phase = "export_named"
    /\ \E customers \in ByName(store, ActiveCustomers(store)) :
           Answer(w, Served(w),
                  [status |-> 200, kind |-> "csv",
                   filename |-> worker[w].filename,
                   rows |-> <<CsvHeader>> \o
                            [k \in 1..Len(customers) |-> CsvRow(store, customers[k])]])
    /\ UNCHANGED <<store, nextId, clock, writes, ticks, sales>>

Export == \E w \in DOMAIN worker : customers_export(w)
ExportRows == \E w \in DOMAIN worker : customers_export_rows(w)

----------------------------------------------------------------------------
(* Spec: a single worker, from the empty table *)

Init ==
    /\ store = <<>>
    /\ nextId = 1
    /\ clock = 1
    /\ writes = 0
    /\ ticks = 0
    /\ sales \in SampleSales
    /\ req = NoRequest
    /\ resp = NoResponse
    /\ worker = Workers(1)

Next ==
    \/ List
    \/ ListRender
    \/ ListAjax
    \/ CreateGet
    \/ CreatePost
    \/ CreateNow
    \/ CreateInsert
    \/ Detail
    \/ DetailRender
    \/ EditGet
    \/ EditPost
    \/ EditNow
    \/ EditSave
    \/ Delete
    \/ DeleteNow
    \/ DeleteSave
    \/ UpdateStats
    \/ UpdateStatsCount
    \/ UpdateStatsSum
    \/ UpdateStatsLast
    \/ UpdateStatsNow
    \/ UpdateStatsSave
    \/ Export
    \/ ExportRows

Spec == Init /\ [][Next]_vars

----------------------------------------------------------------------------
(* SpecStats: update-stats and the detail page of one customer, with and
   without earlier statistics, over every small Sale table; the sales module
   records sales meanwhile *)

\* a customer created at tick 1 and last saved at tick updated_at
Seed(name, visit_count, total_spent, last_purchase_at, updated_at) ==
    [Customer(name, <<>>, <<>>, <<>>, <<>>, <<>>) EXCEPT
        !.visit_count = visit_count, !.total_spent = total_spent,
        !.last_purchase_at = last_purchase_at,
        !.created_at = 1, !.updated_at = updated_at]

\* never updated; updated after two and after four sales; updated after two
\* sales and then renamed
StatsSeeds ==
    {Seed(<<97>>, 0, 0, Null, 1),
     Seed(<<97>>, 2, 400, 2, 3),
     Seed(<<97>>, 4, 10000, 4, 5),
     Seed(<<97, 32, 97>>, 2, 400, 2, 4)}

\* sale number i, made at tick i for 50 + 100 i cents
SaleKinds == {<<97>>, <<97, 32, 97>>} \X {STATUS_COMPLETED, "pending"}
SaleNumber(i, kind) == Sale(i, kind[1], kind[2], 50 + 100 * i, i)
Datasets(n) ==
    UNION {{{SaleNumber(i, f[i]) : i \in 1..k} : f \in [1..k -> SaleKinds]} : k \in 0..n}
SalesInputs == {NotInstalled} \cup {Installed(rows) : rows \in Datasets(MaxSales)}

\* the sales module, where installed, records one more sale
SaleRecorded ==
    /\ sales.installed
    /\ Cardinality(sales.rows) < MaxSales
    /\ \E kind \in SaleKinds :
           sales' = Installed(sales.rows \cup
                                  {SaleNumber(Cardinality(sales.rows) + 1, kind)})
    /\ req' = NoRequest
    /\ resp' = NoResponse
    /\ UNCHANGED <<store, nextId, clock, writes, ticks, worker>>

InitStats ==
    /\ \E seed \in StatsSeeds :
           /\ store = (1 :> seed)
           /\ clock = seed.updated_at + 1
    /\ nextId = 2
    /\ writes = 0
    /\ ticks = 0
    /\ sales \in SalesInputs
    /\ req = NoRequest
    /\ resp = NoResponse
    /\ worker = Workers(1)

DetailPage == \E w \in DOMAIN worker, id \in IdInputs : customer_detail(w, FALSE, id)

NextStats ==
    \/ UpdateStats
    \/ UpdateStatsCount
    \/ UpdateStatsSum
    \/ UpdateStatsLast
    \/ UpdateStatsNow
    \/ UpdateStatsSave
    \/ DetailPage
    \/ DetailRender
    \/ SaleRecorded

SpecStats == InitStats /\ [][NextStats]_vars

----------------------------------------------------------------------------
(* SpecList: the listing, the list page and the export over tables of up to
   a few rows and of about ListLimit rows *)

\* rows of a small table, and rows beyond ListLimit of a large one
MaxSmall == 3
MaxOver == 1

\* customers numbered in the order of their INSERTs and named by three
\* digits, the names in another order than the identifiers
Digits(v) == <<48 + (v \div 100), 48 + ((v \div 10) % 10), 48 + (v % 10)>>
NameOf(i) == Digits((i * 37) % 103)

\* which customers have been soft-deleted since: none, the even ones, all
ActivePatterns == {"all", "odd", "none"}
ActiveIn(pattern, i) == pattern = "all" \/ (pattern = "odd" /\ i % 2 = 1)

\* how the creates were served: one after another; customers 1 and 2 by two
\* workers that read the clock at the same tick; customer 2 by a worker that
\* read the clock before the worker of customer 1 did
StampPatterns == {"apart", "tied", "crossed"}
CreatedAt(stamps, i) ==
    IF stamps = "tied" /\ i = 1 THEN 2
    ELSE IF stamps = "crossed" /\ i \in {1, 2} THEN 3 - i
    ELSE i

\* n customers; the inactive ones were soft-deleted afterwards, customer i at
\* tick n + i
Table(n, pattern, stamps) ==
    [i \in 1..n |->
        [Customer(NameOf(i), <<>>, <<>>, <<>>, <<>>, <<>>) EXCEPT
            !.is_active = ActiveIn(pattern, i),
            !.created_at = CreatedAt(stamps, i),
            !.updated_at = IF ActiveIn(pattern, i) THEN CreatedAt(stamps, i)
                           ELSE n + i]]

TableSizes == (0..MaxSmall) \cup (ListLimit..(ListLimit + MaxOver))

InitList ==
    /\ \E n \in TableSizes, pattern \in ActivePatterns, stamps \in StampPatterns :
           /\ n < 2 => stamps = "apart"
           /\ store = Table(n, pattern, stamps)
           /\ nextId = n + 1
           /\ clock = 2 * n + 1
    /\ writes = 0
    /\ ticks = 0
    /\ sales = NotInstalled
    /\ req = NoRequest
    /\ resp = NoResponse
    /\ worker = Workers(1)

ListAjaxAny ==
    \E w \in DOMAIN worker, search \in Opt({<<32>>, <<49>>}),      \* " " and "1"
       status \in StatusInputs :
        customer_list_ajax(w, Field("search", search) @@ Field("status", status))

NextList ==
    \/ List
    \/ ListRender
    \/ ListAjaxAny
    \/ Export
    \/ ExportRows

SpecList == InitList /\ [][NextList]_vars

----------------------------------------------------------------------------
(* SpecConc: requests for the one customer stored at the start, creates of
   new customers, the list page and the export, served by several workers
   whose steps interleave *)

\* the forms of SpecConc: " a " with every field and is_active=on, and "a a"
\* with no other field
EditForms ==
    {PostData({<<32, 97, 32>>}, {<<98, 32>>}, {On}),
     PostData({<<97, 32, 97>>}, {}, {})}

\* a customer that was created and never saved again
ConcSeeds == {Seed(<<97>>, 0, 0, Null, 1)}

\* the customer the table of SpecConc starts with
SeededIds == {1}

InitConc ==
    /\ \E seed \in ConcSeeds :
           /\ store = (1 :> seed)
           /\ clock = seed.updated_at + 1
    /\ nextId = 2
    /\ writes = 0
    /\ ticks = 0
    /\ sales = SalesOfA
    /\ req = NoRequest
    /\ resp = NoResponse
    /\ worker = Workers(MaxWorkers)

\* time passes while nothing is written
Tick ==
    /\ ticks < MaxTicks
    /\ clock' = clock + 1
    /\ ticks' = ticks + 1
    /\ req' = NoRequest
    /\ resp' = NoResponse
    /\ UNCHANGED <<store, nextId, writes, sales, worker>>

EditForm ==
    \E w \in DOMAIN worker, id \in SeededIds, post \in EditForms :
        customer_edit(w, "POST", FALSE, id, post)
DeleteStored == \E w \in DOMAIN worker, id \in SeededIds : customer_delete(w, id)
UpdateStatsStored ==
    \E w \in DOMAIN worker, id \in SeededIds : customer_update_stats(w, id)
CreateNamed ==
    \E w \in DOMAIN worker :
        customer_create(w, "POST", FALSE, PostData({<<98, 32>>}, {}, {}))
ListPage == \E w \in DOMAIN worker : customer_list(w, FALSE)

NextConc ==
    \/ EditForm
    \/ EditNow
    \/ EditSave
    \/ DeleteStored
    \/ DeleteNow
    \/ DeleteSave
    \/ UpdateStatsStored
    \/ UpdateStatsCount
    \/ UpdateStatsSum
    \/ UpdateStatsLast
    \/ UpdateStatsNow
    \/ UpdateStatsSave
    \/ CreateNamed
    \/ CreateNow
    \/ CreateInsert
    \/ ListPage
    \/ ListRender
    \/ Export
    \/ ExportRows
    \/ Tick

SpecConc == InitConc /\ [][NextConc]_vars

----------------------------------------------------------------------------
(* Properties of the handlers *)

\* a text that is empty or holds only whitespace
Blank(s) == \A i \in 1..Len(s) : IsSpace(s[i])

\* the value a create or edit POST submits under a key ("" when it is left out)
Submitted(r, key) == IF key \in DOMAIN r.POST THEN r.POST[key] ELSE <<>>

LookupHandlers == {"detail", "edit", "delete", "update_stats"}

\* the request just answered asked for a customer that is not stored
UnknownId == req.handler \in LookupHandlers /\ req.customer_id \notin DOMAIN store

\* C1: every lookup-by-id handler answers an identifier that resolves to no
\* stored customer with HTTP 404, never with a 200 JSON envelope.
C1_UnknownIdIs404 == UnknownId => resp.status = 404

\* C2: an edit POST whose name is empty after trimming answers success=false
\* with an error and leaves name, email, phone, address, tax_id, notes and
\* is_active of the stored customer as they were.
C2_EditBlankNameKeepsRecord ==
    [][(/\ req'.handler = "edit"
        /\ req'.method = "POST"
        /\ req'.customer_id \in DOMAIN store
        /\ Blank(Submitted(req', "name")))
       => (/\ resp'.kind = "json"
           /\ resp'.body.success = FALSE
           /\ "error" \in DOMAIN resp'.body
           /\ DOMAIN store' = DOMAIN store
           /\ LET before == store[req'.customer_id]
                  after == store'[req'.customer_id]
              IN /\ after.name = before.name
                 /\ after.email = before.email
                 /\ after.phone = before.phone
                 /\ after.address = before.address
                 /\ after.tax_id = before.tax_id
                 /\ after.notes = before.notes
                 /\ after.is_active = before.is_active)]_vars

\* an edit POST with a name of a space and a no-break space was refused for a
\* customer whose stored email and is_active differ from the submitted ones
C2_Witness ==
    /\ req.handler = "edit"
    /\ req.method = "POST"
    /\ req.customer_id \in DOMAIN store
    /\ Submitted(req, "name") = <<32, 160>>
    /\ resp.kind = "json"
    /\ resp.body.success = FALSE
    /\ store[req.customer_id].email = <<>>
    /\ Submitted(req, "email") = <<98, 32>>
    /\ store[req.customer_id].is_active
    /\ "is_active" \notin DOMAIN req.POST

\* C3: a create POST whose name is missing, empty or only whitespace answers
\* success=false with a non-empty error and stores nothing; one with any
\* other name adds exactly one row under an identifier not in use and answers
\* success=true with that identifier.
C3_CreateValidatesName ==
    [][(req'.handler = "create" /\ req'.method = "POST")
       => IF Blank(Submitted(req', "name"))
          THEN /\ resp'.kind = "json"
               /\ resp'.body.success = FALSE
               /\ resp'.body.error # ""
               /\ store' = store
          ELSE /\ resp'.kind = "json"
               /\ resp'.body.success = TRUE
               /\ resp'.body.customer_id \notin DOMAIN store
               /\ DOMAIN store' = DOMAIN store \cup {resp'.body.customer_id}
               /\ \A i \in DOMAIN store : store'[i] = store[i]]_vars

\* a second customer was created from a name submitted with spaces around it
C3_Witness ==
    /\ req.handler = "create"
    /\ req.method = "POST"
    /\ Submitted(req, "name") = <<32, 97, 32>>
    /\ resp.body.success = TRUE
    /\ resp.body.customer_id = 2
    /\ DOMAIN store = {1, 2}
    /\ store[2].name = <<97>>

\* C4: no step of a request removes a row: every stored identifier stays
\* stored and a detail GET for it is answered 200; a successful delete POST
\* sets the customer's is_active to false and removes nothing.
C4_NeverRemoved ==
    [][/\ DOMAIN store \subseteq DOMAIN store'
       /\ (req'.handler = "detail" /\ req'.customer_id \in DOMAIN store)
              => resp'.status = 200
       /\ (req'.handler = "delete" /\ resp'.body.success)
              => /\ req'.customer_id \in DOMAIN store'
                 /\ ~store'[req'.customer_id].is_active
                 /\ DOMAIN store' = DOMAIN store]_vars

\* an active customer was soft-deleted and is still stored, now inactive
C4_Witness ==
    /\ req.handler = "delete"
    /\ resp.body.success
    /\ req.customer_id \in DOMAIN store
    /\ req.customer.is_active
    /\ ~store[req.customer_id].is_active

----------------------------------------------------------------------------
(* Properties of the statistics *)

\* the completed sales of a Sale table recorded under a name
CompletedFor(name, rows) ==
    {s \in rows : s.customer_name = name /\ s.status = "completed"}

\* worker w goes from one statement of update_stats to the next
StatsStep(w, from, to) ==
    /\ worker[w].phase = from
    /\ worker'[w].phase = to

\* C5: with the sales module installed, update_stats sets visit_count to the
\* number of completed sales recorded under the customer's current name, as
\* its COUNT query finds them, total_spent to the sum of their totals as its
\* SUM query finds them (0 when there are none) and last_purchase_at to the
\* creation time of the latest of them as its last query finds them; with no
\* such sale last_purchase_at stays as it was.  Each assignment changes that
\* column alone, the save changes updated_at alone before it stores the
\* instance, and the handler reports the instance.
C5_StatsFromCompletedSales ==
    [][\A w \in DOMAIN worker :
           LET before == worker[w].customer
               after == worker'[w].customer
               found == CompletedFor(before.name, sales.rows)
           IN /\ StatsStep(w, "stats_loaded", "stats_counted") =>
                     after = [before EXCEPT !.visit_count = Cardinality(found)]
              /\ StatsStep(w, "stats_counted", "stats_summed") =>
                     after = [before EXCEPT !.total_spent = SumTotal(found)]
              /\ StatsStep(w, "stats_summed", "stats_dated") =>
                     /\ [after EXCEPT !.last_purchase_at = before.last_purchase_at]
                            = before
                     /\ IF found = {}
                        THEN after.last_purchase_at = before.last_purchase_at
                        ELSE /\ \E s \in found : after.last_purchase_at = s.created_at
                             /\ \A s \in found : s.created_at <= after.last_purchase_at
              /\ StatsStep(w, "stats_dated", "stats_stamped") =>
                     [after EXCEPT !.updated_at = before.updated_at] = before
              /\ StatsStep(w, "stats_stamped", "idle") =>
                     /\ store'[worker[w].customer_id] = before
                     /\ req'.handler = "update_stats"
                     /\ resp'.body.success = TRUE
                     /\ resp'.body.visit_count = before.visit_count
                     /\ resp'.body.total_spent = before.total_spent]_vars

\* a renamed customer was updated against sales recorded under the old name
\* only: the counters fell to zero and last_purchase_at kept its value
C5_Witness ==
    /\ req.handler = "update_stats"
    /\ req.customer_id \in DOMAIN store
    /\ sales.installed
    /\ store[req.customer_id].name = <<97, 32, 97>>
    /\ CompletedFor(<<97>>, sales.rows) # {}
    /\ CompletedFor(<<97, 32, 97>>, sales.rows) = {}
    /\ store[req.customer_id].visit_count = 0
    /\ store[req.customer_id].total_spent = 0
    /\ store[req.customer_id].last_purchase_at = 2

\* C6: with the sales module not installed, update-stats writes nothing: the
\* row, updated_at included, is as before, the handler answers success=true
\* with the stored values, and the detail page lists no recent purchases.
C6_NoSalesIsNoOp ==
    [][/\ (/\ req'.handler = "update_stats"
           /\ req'.customer_id \in DOMAIN store
           /\ ~sales.installed)
          => /\ store' = store
             /\ writes' = writes
             /\ resp'.kind = "json"
             /\ resp'.body.success = TRUE
             /\ resp'.body.total_spent = store[req'.customer_id].total_spent
             /\ resp'.body.visit_count = store[req'.customer_id].visit_count
       /\ (/\ req'.handler = "detail"
           /\ req'.customer_id \in DOMAIN store
           /\ ~sales.installed)
          => /\ resp'.status = 200
             /\ resp'.context.recent_purchases = <<>>]_vars

\* update-stats ran without the sales module on a customer whose stored
\* statistics came from an earlier run with it
C6_Witness ==
    /\ req.handler = "update_stats"
    /\ req.customer_id \in DOMAIN store
    /\ ~sales.installed
    /\ resp.body.success = TRUE
    /\ resp.body.visit_count = 2
    /\ resp.body.total_spent = 400
    /\ store[req.customer_id].total_spent = 400
    /\ store[req.customer_id].last_purchase_at = 2

\* C10: the average_purchase a handler reports is total_spent divided by
\* visit_count when visit_count > 0 and 0.00 otherwise; the division never
\* raises.
C10_AveragePurchase ==
    (req.handler = "update_stats" /\ resp.body.success)
       => LET customer == store[req.customer_id]
              average == resp.body.average_purchase
          IN /\ ~average.raised
             /\ IF customer.visit_count > 0
                THEN /\ average.cents * customer.visit_count + average.rest
                           = customer.total_spent
                     /\ average.rest >= 0
                     /\ average.rest < customer.visit_count
                ELSE average.cents = 0 /\ average.rest = 0

\* total_spent = 100.00 over 4 visits was reported as 25.00
C10_Witness ==
    /\ req.handler = "update_stats"
    /\ resp.body.success
    /\ store[req.customer_id].total_spent = 10000
    /\ store[req.customer_id].visit_count = 4
    /\ resp.body.average_purchase.cents = 2500
    /\ resp.body.average_purchase.rest = 0

----------------------------------------------------------------------------
(* Properties of the listing and the export *)

\* the identifiers a listing response holds
Listed == {resp.body.customers[k].id : k \in 1..Len(resp.body.customers)}

\* a listing request made with no search text
PlainListing ==
    /\ req.handler = "list_ajax"
    /\ ("search" \in DOMAIN req.GET => Blank(req.GET["search"]))

\* C7: with no search text, status=active lists only active customers,
\* status=inactive only inactive ones and status=all customers of either
\* kind; a request without status is answered as status=active. With at most
\* 100 customers stored, the three answers are exactly the active customers,
\* the inactive customers and all customers.
C7_StatusFilter ==
    PlainListing =>
        LET status == IF "status" \in DOMAIN req.GET THEN req.GET["status"] ELSE "active"
            active == {i \in DOMAIN store : store[i].is_active}
            inactive == {i \in DOMAIN store : ~store[i].is_active}
            few == Cardinality(DOMAIN store) <= 100
        IN /\ status = "active" =>
                 /\ Listed \subseteq active
                 /\ few => Listed = active
           /\ status = "inactive" =>
                 /\ Listed \subseteq inactive
                 /\ few => Listed = inactive
           /\ status = "all" =>
                 /\ Listed \subseteq DOMAIN store
                 /\ Cardinality(Listed) = Min(100, Cardinality(DOMAIN store))
                 /\ few => Listed = active \cup inactive

\* a request without status over a table of active and inactive customers
\* was answered with the active ones
C7_Witness ==
    /\ PlainListing
    /\ "status" \notin DOMAIN req.GET
    /\ Listed = {1, 3}
    /\ DOMAIN store = {1, 2, 3}
    /\ ~store[2].is_active

\* C8: the listing holds the matching customers newest-created first, cut to
\* 100 rows: its length is min(100, number of matches), each listed customer
\* comes before every listed customer created earlier, and no match left out
\* was created after a listed one.
C8_NewestFirstLimit ==
    req.handler = "list_ajax" =>
        LET rows == resp.body.customers
            matches == Filtered(store, Get(req.GET, "status", "active"),
                                strip(Get(req.GET, "search", <<>>)))
        IN /\ Len(rows) = Min(100, Cardinality(matches))
           /\ Cardinality(Listed) = Len(rows)
           /\ Listed \subseteq matches
           /\ \A k \in 1..Len(rows) : \A l \in 1..Len(rows) :
                  store[rows[k].id].created_at > store[rows[l].id].created_at
                      => k < l
           /\ \A i \in matches \ Listed : \A j \in Listed :
                  store[i].created_at <= store[j].created_at

\* 101 customers matched: the 100 newest were listed, newest first, and the
\* oldest was left out
C8_Witness ==
    /\ req.handler = "list_ajax"
    /\ Cardinality(DOMAIN store) = 101
    /\ \A i \in DOMAIN store : store[i].created_at = i
    /\ Len(resp.body.customers) = 100
    /\ resp.body.customers[1].id = 101
    /\ resp.body.customers[100].id = 2
    /\ 1 \notin Listed

\* C9: after the header row the export holds exactly one row for each
\* active customer and none for an inactive one, names ascending.
C9_ExportActiveByName ==
    req.handler = "export" =>
        LET active == {i \in DOMAIN store : store[i].is_active}
            rows == resp.rows
        IN /\ rows[1] = CsvHeader
           /\ Len(rows) = 1 + Cardinality(active)
           /\ \A i \in active : \E k \in 2..Len(rows) : rows[k] = CsvRow(store, i)
           /\ \A k \in 2..Len(rows) : \E i \in active : rows[k] = CsvRow(store, i)
           /\ \A k \in 2..(Len(rows) - 1) : TextLeq(rows[k][1], rows[k + 1][1])

\* three customers, the second inactive, the third named before the first:
\* the export holds the third and then the first
C9_Witness ==
    /\ req.handler = "export"
    /\ DOMAIN store = {1, 2, 3}
    /\ ~store[2].is_active
    /\ Len(resp.rows) = 3
    /\ resp.rows[2][1] = store[3].name
    /\ resp.rows[3][1] = store[1].name
    /\ store[3].name # store[1].name

----------------------------------------------------------------------------
(* Properties of interleaved requests *)

\* the request just answered is a successful edit POST for customer i
EditSucceeded(i) ==
    /\ req'.handler = "edit"
    /\ req'.method = "POST"
    /\ req'.customer_id = i
    /\ resp'.kind = "json"
    /\ resp'.body.success

\* C11: in every behaviour, interleaved requests included, an inactive
\* customer becomes active only through a successful edit POST submitted with
\* is_active=on, and neither create nor update-stats turns an active customer
\* inactive.
C11_ActiveOnlyByEdit ==
    [][\A i \in DOMAIN store :
           /\ (~store[i].is_active /\ store'[i].is_active) =>
                  (EditSucceeded(i) /\ Submitted(req', "is_active") = On)
           /\ (store[i].is_active /\ ~store'[i].is_active) =>
                  req'.handler \notin {"create", "update_stats"}]_vars

\* the seven columns of a stored row that the edit form carries
FormColumns(row) ==
    <<row.name, row.email, row.phone, row.address, row.tax_id, row.notes, row.is_active>>

\* the same seven as request r submitted them, trimmed as the handler trims
FormSubmitted(r) ==
    <<strip(Submitted(r, "name")), strip(Submitted(r, "email")),
      strip(Submitted(r, "phone")), strip(Submitted(r, "address")),
      strip(Submitted(r, "tax_id")), strip(Submitted(r, "notes")),
      Submitted(r, "is_active") = On>>

\* the request answered by the step is an edit POST for a stored customer
\* whose name is not blank
ValidEdit(r) ==
    /\ r.handler = "edit"
    /\ r.method = "POST"
    /\ r.customer_id \in DOMAIN store
    /\ ~Blank(Submitted(r, "name"))

\* C12: concurrent edits are last-write-wins.  Every valid edit POST answers
\* success however the requests interleave, and its save leaves the stored
\* name, email, phone, address, tax_id, notes and is_active equal to exactly
\* the fields it submitted, whatever another edit wrote since it loaded the
\* row: after the last save the row holds the last edit's fields, never a
\* mixture of two edits.
C12_LastWriteWins ==
    [][ValidEdit(req') =>
           /\ resp'.kind = "json"
           /\ resp'.body.success
           /\ FormColumns(store'[req'.customer_id]) = FormSubmitted(req')]_vars

\* two valid edits of one customer with different forms overlapped: the edit
\* just answered read the clock for its save, time passed, the other edit
\* ("a a" and nothing else) read the clock and saved, and then the UPDATE of
\* this one put its own seven fields, and its earlier updated_at, over it
C12_Witness ==
    /\ ValidEdit(req)
    /\ resp.body.success
    /\ req.customer.updated_at < req.replaced.updated_at
    /\ FormColumns(req.replaced) = <<<<97, 32, 97>>, <<>>, <<>>, <<>>, <<>>, <<>>, FALSE>>
    /\ FormColumns(store[req.customer_id])
           = <<<<97>>, <<98>>, <<98>>, <<98>>, <<98>>, <<98>>, TRUE>>

\* C13: soft-delete mutates is_active only.  However a delete POST
\* interleaves with other requests on the customer, its save changes no
\* stored column but is_active and updated_at; it never reverts a name, email,
\* phone, address, tax_id or notes written by an edit that committed between
\* the delete's read and its save.
C13_DeleteOnlyIsActive ==
    [][(req'.handler = "delete" /\ store' # store) =>
           \A i \in DOMAIN store :
               [store'[i] EXCEPT !.is_active = store[i].is_active,
                                 !.updated_at = store[i].updated_at] = store[i]]_vars

\* the three columns update_stats computes
StatsColumns(row) == <<row.total_spent, row.visit_count, row.last_purchase_at>>

\* C14: total_spent, visit_count and last_purchase_at are changed only by the
\* statistics updater.  In every behaviour, interleaved requests included, a
\* created customer starts with 0.00, 0 and null, and no edit POST or delete
\* POST changes the stored three, so they keep what one update_stats wrote
\* until the next update_stats commits.
C14_StatsOnlyByUpdater ==
    [][/\ \A i \in DOMAIN store :
              StatsColumns(store'[i]) # StatsColumns(store[i]) =>
                  (req'.handler = "update_stats" /\ req'.customer_id = i)
       /\ \A i \in DOMAIN store' \ DOMAIN store :
              StatsColumns(store'[i]) = <<0, 0, Null>>]_vars
====
